---- MODULE Spec2Model ----
(***************************************************************************)
(* Model of scripts/validate-bookpack.py: one BookPackValidator run per    *)
(* invocation of main(), over a package directory held as a map from       *)
(* paths to file contents.                                                 *)
(***************************************************************************)
EXTENDS Integers, Sequences, FiniteSets, TLC

\* ------------------------------------------------------------------ bounds
MaxChapters == 2
MaxNodes == 2
MaxRuns == 2

\* -------------------------------------------------------- program constants
FileListLimit == 5
IdListLimit == 10

\* ------------------------------------------------------------ Python values
\* A decoded JSON value is tagged with its Python type.
None == [kind |-> "null", val |-> 0]
Num(n) == [kind |-> "number", val |-> n]
Obj(r) == [kind |-> "object", val |-> r]
Arr(s) == [kind |-> "array", val |-> s]
\* A file that exists but does not decode as JSON.
Invalid == [kind |-> "invalid", val |-> 0]

EmptyDict == [k \in {} |-> 0]

\* bool(v): None, {}, [] and 0 are falsy.
Truthy(v) ==
  CASE v.kind = "null" -> FALSE
    [] v.kind = "number" -> v.val # 0
    [] v.kind = "object" -> DOMAIN v.val # {}
    [] v.kind = "array" -> Len(v.val) > 0

\* isinstance(v, dict) / isinstance(v, list)
IsNone(v) == v.kind = "null"
IsDict(v) == v.kind = "object"
IsList(v) == v.kind = "array"

\* "k in v" raises TypeError on a number or None.
InRaises(v) == v.kind \in {"number", "null"}
\* "k in v" for a dict.
In(k, v) == k \in DOMAIN v.val
\* v.get(...) raises AttributeError unless v is a dict.
GetRaises(v) == v.kind # "object"
\* v.get(k, d) for a dict.
Get(v, k, d) == IF k \in DOMAIN v.val THEN v.val[k] ELSE d

Min(a, b) == IF a < b THEN a ELSE b
\* seq[:k]
Take(seq, k) == SubSeq(seq, 1, Min(k, Len(seq)))

\* ----------------------------------------------------------------- messages
\* A formatted message: its fixed text and the values interpolated into it.
Msg(text, n, m, ids, more) ==
  [text |-> text, n |-> n, m |-> m, ids |-> ids, more |-> more]

\* ------------------------------------------------- BookPackValidator methods
\* self: the validator's fields that the checks read and write.
NewSelf(st) == [strict |-> st, errors |-> <<>>, warnings |-> <<>>]

error(self, msg) == [self EXCEPT !.errors = Append(@, msg)]

\* (variant) strict mode is ignored
warn_ignoring_strict(self, msg) == [self EXCEPT !.warnings = Append(@, msg)]

warn(self, msg) ==
  IF self.strict
    THEN [self EXCEPT !.warnings = Append(@, msg), !.errors = Append(@, msg)]
    ELSE [self EXCEPT !.warnings = Append(@, msg)]

\* os.path.isfile on a path of the package
isfile(files, path) == path \in DOMAIN files

\* What a method hands back: the validator after it, its return value, and
\* whether it raised an uncaught exception.
Ret(self, ret) == [self |-> self, ret |-> ret, raised |-> FALSE]
Raise(self) == [self |-> self, ret |-> None, raised |-> TRUE]

load_json(self, files, path) ==
  IF ~isfile(files, path) THEN Ret(self, None)
  ELSE IF files[path].kind = "invalid"
    THEN Ret(error(self, Msg("invalid JSON", 0, 0, path, FALSE)), None)
    ELSE Ret(self, files[path])

Required == <<"id", "title", "author", "schemaVersion">>

MissingOf(meta, fields) == SelectSeq(fields, LAMBDA k : ~In(k, meta))

check_book_json(self, files) ==
  LET L == load_json(self, files, <<"book.json">>)
      meta == L.ret
  IN IF IsNone(meta)
       THEN Ret(error(L.self, Msg("book.json is missing or invalid", 0, 0, <<>>, FALSE)), None)
     ELSE IF InRaises(meta) THEN Raise(L.self)
     ELSE IF ~IsDict(meta) THEN Raise(L.self)
     ELSE
       LET missing == MissingOf(meta, Required)
       IN IF missing # <<>>
            THEN Ret(error(L.self, Msg("book.json missing required fields", 0, 0, missing, FALSE)), None)
          ELSE
            LET s1 == IF Get(meta, "schemaVersion", "") # "1.0"
                        THEN error(L.self, Msg("book.json schemaVersion is not 1.0", 0, 0,
                                               <<Get(meta, "schemaVersion", "")>>, FALSE))
                        ELSE L.self
                cover == Get(meta, "coverImage", "")
                s2 == IF cover # "" /\ ~isfile(files, <<cover>>)
                        THEN warn(s1, Msg("book.json references coverImage but file not found", 0, 0,
                                          <<cover>>, FALSE))
                        ELSE s1
            IN Ret(s2, meta)

EntryFields == <<"chapter", "snapshot", "delta">>

\* One error per field that entry i lacks.
RECURSIVE ReportMissing(_, _, _)
ReportMissing(self, fs, i) ==
  IF fs = <<>> THEN self
  ELSE ReportMissing(error(self, Msg("chapters/index.json entry missing field", i, 0,
                                     <<Head(fs)>>, FALSE)), Tail(fs), i)

\* The loop over the entries of the index (entries[1] is at 0-based position i).
RECURSIVE IndexEntries(_, _, _)
IndexEntries(self, entries, i) ==
  IF entries = <<>> THEN Ret(self, None)
  ELSE IF InRaises(Head(entries)) THEN Raise(self)
  ELSE IndexEntries(ReportMissing(self, MissingOf(Head(entries), EntryFields), i),
                    Tail(entries), i + 1)

\* (variant) an empty array is accepted
check_chapters_index_accepting_empty(self, files) ==
  LET L == load_json(self, files, <<"chapters", "index.json">>)
      index == L.ret
  IN IF IsNone(index)
       THEN Ret(error(L.self, Msg("chapters/index.json is missing or invalid", 0, 0, <<>>, FALSE)), None)
     ELSE IF ~IsList(index)
       THEN Ret(error(L.self, Msg("chapters/index.json is not an array", 0, 0, <<>>, FALSE)), None)
     ELSE
       LET R == IndexEntries(L.self, index.val, 0)
       IN IF R.raised THEN R ELSE Ret(R.self, index)

check_chapters_index(self, files) ==
  LET L == load_json(self, files, <<"chapters", "index.json">>)
      index == L.ret
  IN IF IsNone(index)
       THEN Ret(error(L.self, Msg("chapters/index.json is missing or invalid", 0, 0, <<>>, FALSE)), None)
     ELSE IF ~IsList(index)
       THEN Ret(error(L.self, Msg("chapters/index.json is not an array", 0, 0, <<>>, FALSE)), None)
     ELSE IF Len(index.val) = 0
       THEN Ret(error(L.self, Msg("chapters/index.json is empty", 0, 0, <<>>, FALSE)), None)
     ELSE
       LET R == IndexEntries(L.self, index.val, 0)
       IN IF R.raised THEN R ELSE Ret(R.self, index)

\* The (chapter, filename) pairs of the entries whose file named by field is
\* absent from the chapters directory, flattened to ch1, f1, ch2, f2, ...
RECURSIVE MissingFiles(_, _, _)
MissingFiles(files, entries, field) ==
  IF entries = <<>> THEN <<>>
  ELSE
    LET entry == Head(entries)
        f == Get(entry, field, "")
        ch == Get(entry, "chapter", "?")
        rest == MissingFiles(files, Tail(entries), field)
    IN IF f # "" /\ ~isfile(files, <<"chapters", f>>) THEN <<ch, f>> \o rest ELSE rest

check_chapter_files(self, files, index) ==
  IF \E i \in 1..Len(index.val) : GetRaises(index.val[i]) THEN Raise(self)
  ELSE
    LET missing_snapshots == MissingFiles(files, index.val, "snapshot")
        missing_deltas == MissingFiles(files, index.val, "delta")
        s1 == IF missing_snapshots # <<>>
                THEN error(self, Msg("snapshot file(s) missing", Len(missing_snapshots) \div 2, 0,
                                     Take(missing_snapshots, 2 * FileListLimit),
                                     Len(missing_snapshots) \div 2 > FileListLimit))
                ELSE self
        s2 == IF missing_deltas # <<>>
                THEN error(s1, Msg("delta file(s) missing", Len(missing_deltas) \div 2, 0,
                                   Take(missing_deltas, 2 * FileListLimit),
                                   Len(missing_deltas) \div 2 > FileListLimit))
                ELSE s1
    IN Ret(s2, None)

ChapterCountText == "book.json chapterCount differs from chapters/index.json entries"

\* (variant) the count is compared with the last 0-based position
check_chapter_count_off_by_one(self, meta, index) ==
  LET declared == Get(meta, "chapterCount", 0)
      actual == Len(index.val) - 1
  IN IF declared # actual
       THEN Ret(error(self, Msg(ChapterCountText, declared, actual, <<>>, FALSE)), None)
       ELSE Ret(self, None)

\* (variant) a mismatch is advisory
check_chapter_count_advisory(self, meta, index) ==
  LET declared == Get(meta, "chapterCount", 0)
      actual == Len(index.val)
  IN IF declared # actual
       THEN Ret(warn(self, Msg(ChapterCountText, declared, actual, <<>>, FALSE)), None)
       ELSE Ret(self, None)

check_chapter_count(self, meta, index) ==
  LET declared == Get(meta, "chapterCount", 0)
      actual == Len(index.val)
  IN IF declared # actual
       THEN Ret(error(self, Msg(ChapterCountText, declared, actual, <<>>, FALSE)), None)
       ELSE Ret(self, None)

CharsMissingMsg == Msg("characters/index.json is missing or invalid", 0, 0, <<>>, FALSE)
CharsNotDictMsg == Msg("characters/index.json is not a dict", 0, 0, <<>>, FALSE)

\* (variant) a missing registry is an error
check_characters_index_required(self, files) ==
  LET L == load_json(self, files, <<"characters", "index.json">>)
      chars == L.ret
  IN IF IsNone(chars) THEN Ret(error(L.self, CharsMissingMsg), None)
     ELSE IF ~IsDict(chars) THEN Ret(warn(L.self, CharsNotDictMsg), None)
     ELSE Ret(L.self, chars)

\* (variant) a registry that is not a dict is still handed on
check_characters_index_any_shape(self, files) ==
  LET L == load_json(self, files, <<"characters", "index.json">>)
      chars == L.ret
  IN IF IsNone(chars) THEN Ret(warn(L.self, CharsMissingMsg), None)
     ELSE IF ~IsDict(chars) THEN Ret(warn(L.self, CharsNotDictMsg), chars)
     ELSE Ret(L.self, chars)

check_characters_index(self, files) ==
  LET L == load_json(self, files, <<"characters", "index.json">>)
      chars == L.ret
  IN IF IsNone(chars) THEN Ret(warn(L.self, CharsMissingMsg), None)
     ELSE IF ~IsDict(chars) THEN Ret(warn(L.self, CharsNotDictMsg), None)
     ELSE Ret(L.self, chars)

CharacterCountText == "book.json characterCount differs from characters/index.json entries"

check_character_count(self, meta, chars) ==
  LET declared == Get(meta, "characterCount", 0)
      actual == Cardinality(DOMAIN chars.val)
  IN IF declared # actual
       THEN Ret(warn(self, Msg(CharacterCountText, declared, actual, <<>>, FALSE)), None)
       ELSE Ret(self, None)

\* The node loop of the coverage check: the ids absent from the registry,
\* or a raise on a node that is not a dict.
RECURSIVE MissingIds(_, _)
MissingIds(nodes, chars) ==
  IF nodes = <<>> THEN [ids |-> <<>>, raised |-> FALSE]
  ELSE IF GetRaises(Head(nodes)) THEN [ids |-> <<>>, raised |-> TRUE]
  ELSE
    LET nid == Get(Head(nodes), "id", "")
        rest == MissingIds(Tail(nodes), chars)
    IN IF nid # "" /\ ~In(nid, chars)
         THEN [ids |-> <<nid>> \o rest.ids, raised |-> rest.raised]
         ELSE rest

CoverageText == "node ID(s) not in characters/index.json"

check_node_character_coverage(self, files, index, chars) ==
  LET last_entry == index.val[Len(index.val)]
  IN IF GetRaises(last_entry) THEN Raise(self)
     ELSE
       LET snap_file == Get(last_entry, "snapshot", "")
       IN IF snap_file = "" THEN Ret(self, None)
          ELSE
            LET L == load_json(self, files, <<"chapters", snap_file>>)
                snap == L.ret
            IN IF ~Truthy(snap) \/ ~IsDict(snap) THEN Ret(L.self, None)
               ELSE
                 LET nodes == Get(snap, "nodes", Arr(<<>>))
                 IN IF ~IsList(nodes) THEN Raise(L.self)
                    ELSE
                      LET M == MissingIds(nodes.val, chars)
                      IN IF M.raised THEN Raise(L.self)
                         ELSE IF M.ids # <<>>
                           THEN Ret(warn(L.self, Msg(CoverageText, Len(M.ids), 0,
                                                     Take(M.ids, IdListLimit),
                                                     Len(M.ids) > IdListLimit)), None)
                           ELSE Ret(L.self, None)

\* The entry loop of the empty-snapshot check: the validator after the loads,
\* the chapters collected so far, or a raise.
RECURSIVE EmptyLoop(_, _, _, _)
EmptyLoop(self, files, entries, empty) ==
  IF entries = <<>> THEN [self |-> self, ret |-> empty, raised |-> FALSE]
  ELSE IF GetRaises(Head(entries)) THEN [self |-> self, ret |-> empty, raised |-> TRUE]
  ELSE
    LET entry == Head(entries)
        snap_file == Get(entry, "snapshot", "")
        ch == Get(entry, "chapter", "?")
    IN IF snap_file = "" THEN EmptyLoop(self, files, Tail(entries), empty)
       ELSE
         LET L == load_json(self, files, <<"chapters", snap_file>>)
             snap == L.ret
         IN IF Truthy(snap) /\ IsDict(snap)
              THEN LET nodes == Get(snap, "nodes", Arr(<<>>))
                   IN IF ~IsList(nodes)
                        THEN [self |-> L.self, ret |-> empty, raised |-> TRUE]
                      ELSE IF Len(nodes.val) = 0
                        THEN EmptyLoop(L.self, files, Tail(entries), Append(empty, ch))
                        ELSE EmptyLoop(L.self, files, Tail(entries), empty)
              ELSE EmptyLoop(L.self, files, Tail(entries), empty)

EmptyText == "snapshot(s) have 0 nodes"

check_no_empty_snapshots(self, files, index) ==
  LET R == EmptyLoop(self, files, index.val, <<>>)
  IN IF R.raised THEN Raise(R.self)
     ELSE IF R.ret # <<>>
       THEN Ret(warn(R.self, Msg(EmptyText, Len(R.ret), 0, Take(R.ret, IdListLimit), FALSE)), None)
       ELSE Ret(R.self, None)

\* ------------------------------------------------------ package directories
\* The files of a package: a map from path (sequence of components below the
\* package root) to the decoded content of the file; absent paths are absent
\* files.
NoFiles == [k \in {} |-> None]

ChapterLabels == <<"1", "2", "3", "4">>
SnapshotNames == <<"s1.json", "s2.json", "s3.json", "s4.json">>
DeltaNames == <<"d1.json", "d2.json", "d3.json", "d4.json">>

\* book.json as an object with the keys ks.
BookObject(ks, sv, cover, cc, chc) ==
  Obj([k \in ks |->
        CASE k = "id" -> "x"
          [] k = "title" -> "T"
          [] k = "author" -> "A"
          [] k = "schemaVersion" -> sv
          [] k = "coverImage" -> cover
          [] k = "chapterCount" -> cc
          [] k = "characterCount" -> chc])

BookKeys(cover, cc, chc) ==
  {"id", "title", "author", "schemaVersion"}
    \cup (IF cover # "" THEN {"coverImage"} ELSE {})
    \cup (IF cc >= 0 THEN {"chapterCount"} ELSE {})
    \cup (IF chc >= 0 THEN {"characterCount"} ELSE {})

\* book.json and the cover image it may name
BookFiles ==
  {NoFiles,
   <<"book.json">> :> Invalid,
   <<"book.json">> :> Num(7),
   <<"book.json">> :> BookObject({"id", "author", "schemaVersion"}, "1.0", "", 0, 0)}
  \cup
  {(<<"book.json">> :> BookObject(BookKeys(c.cover, cc, chc), c.sv, c.cover, cc, chc))
     @@ (IF c.exists THEN <<c.cover>> :> Invalid ELSE NoFiles) :
     c \in {[sv |-> "1.0", cover |-> "", exists |-> FALSE],
            [sv |-> "2.0", cover |-> "", exists |-> FALSE],
            [sv |-> "1.0", cover |-> "cover.jpg", exists |-> FALSE],
            [sv |-> "1.0", cover |-> "cover.jpg", exists |-> TRUE]},
     cc \in {-1} \cup 1..MaxChapters,
     chc \in {-1, 1}}

\* characters/index.json
Registry(ids) == Obj([k \in ids |-> 0])

CharacterFiles ==
  {NoFiles,
   <<"characters", "index.json">> :> Invalid,
   <<"characters", "index.json">> :> Arr(<<>>)}
  \cup {<<"characters", "index.json">> :> Registry(ids) :
          ids \in {{}, {"alyosha"}, {"alyosha", "zosima"}}}

\* Sequences over S of length at most n
RECURSIVE SeqsUpTo(_, _)
SeqsUpTo(S, n) ==
  IF n = 0 THEN {<<>>}
  ELSE LET shorter == SeqsUpTo(S, n - 1)
       IN shorter \cup {Append(q, x) : q \in {r \in shorter : Len(r) = n - 1}, x \in S}

Node(id) == Obj([k \in {"id"} |-> id])
NodeChoices == {Node("alyosha"), Node("zosima"), Obj(EmptyDict)}

Snapshot(nodes) == Obj([k \in {"nodes"} |-> nodes])

\* Content of a snapshot file
SnapshotChoices ==
  {Snapshot(Arr(q)) : q \in SeqsUpTo(NodeChoices, MaxNodes)}
  \cup {Snapshot(Arr(<<Num(1)>>)), Snapshot(Num(3)), Obj(EmptyDict), Arr(<<>>), Invalid}

Entry(i, ks) ==
  Obj([k \in ks |->
        CASE k = "chapter" -> ChapterLabels[i]
          [] k = "snapshot" -> SnapshotNames[i]
          [] k = "delta" -> DeltaNames[i]])

FullEntry(i) == Entry(i, {"chapter", "snapshot", "delta"})
SnapshotFile(i, content) == <<"chapters", SnapshotNames[i]>> :> content
DeltaFile(i) == <<"chapters", DeltaNames[i]>> :> Obj(EmptyDict)

\* An index entry at position i together with the chapter files it names.
LastEntryChoices(i) ==
  {[entry |-> FullEntry(i), files |-> SnapshotFile(i, c) @@ DeltaFile(i)] : c \in SnapshotChoices}
  \cup
  {[entry |-> FullEntry(i), files |-> DeltaFile(i)],
   [entry |-> FullEntry(i), files |-> SnapshotFile(i, Snapshot(Arr(<<Node("alyosha")>>)))],
   [entry |-> Entry(i, {"chapter", "delta"}), files |-> DeltaFile(i)],
   [entry |-> Entry(i, {"snapshot", "delta"}),
    files |-> SnapshotFile(i, Snapshot(Arr(<<Node("alyosha")>>))) @@ DeltaFile(i)],
   [entry |-> Obj([k \in {"chapter", "snapshot", "delta"} |->
                     IF k = "chapter" THEN ChapterLabels[i] ELSE IF k = "snapshot" THEN "" ELSE DeltaNames[i]]),
    files |-> DeltaFile(i)],
   [entry |-> Num(1), files |-> NoFiles]}

EarlierEntryChoices(i) ==
  {[entry |-> FullEntry(i), files |-> SnapshotFile(i, Snapshot(Arr(<<Node("zosima")>>))) @@ DeltaFile(i)],
   [entry |-> FullEntry(i), files |-> SnapshotFile(i, Snapshot(Arr(<<>>)))]}

\* Index arrays of exactly n entries with their chapter files.
RECURSIVE EarlierEntries(_)
EarlierEntries(n) ==
  IF n = 0 THEN {[entries |-> <<>>, files |-> NoFiles]}
  ELSE {[entries |-> Append(p.entries, c.entry), files |-> p.files @@ c.files] :
          p \in EarlierEntries(n - 1), c \in EarlierEntryChoices(n)}

ChapterFiles ==
  {NoFiles,
   <<"chapters", "index.json">> :> Invalid,
   <<"chapters", "index.json">> :> Obj(EmptyDict),
   <<"chapters", "index.json">> :> Arr(<<>>)}
  \cup
  UNION {{(<<"chapters", "index.json">> :> Arr(Append(p.entries, c.entry))) @@ p.files @@ c.files :
            p \in EarlierEntries(n - 1), c \in LastEntryChoices(n)} : n \in 1..MaxChapters}

Packages ==
  {[dir |-> FALSE, files |-> NoFiles]}
  \cup {[dir |-> TRUE, files |-> b @@ ch @@ c] :
          b \in BookFiles, ch \in ChapterFiles, c \in CharacterFiles}

\* ------------------------------------------------------------ state machine
VARIABLES
  pkg,            \* the package directory on disk
  strict,         \* the --strict flag of the command line
  self,           \* the BookPackValidator instance of the current run
  pc,             \* where the current run is in validate()
  book_meta,      \* locals of validate()
  chapter_index,
  char_index,
  ran,            \* the checks whose bodies the current run has entered
  result,         \* how the current run ended
  runs,           \* invocations of main() so far
  budget,         \* invocations of main() this behaviour may make
  prev            \* the outcome of the previous invocation

vars == <<pkg, strict, self, pc, book_meta, chapter_index, char_index, ran, result,
          runs, budget, prev>>

NoOutcome == [errors |-> <<>>, warnings |-> <<>>, result |-> "none"]

InitWith(b) ==
  /\ pkg \in Packages
  /\ strict \in BOOLEAN
  /\ self = [strict |-> FALSE, errors |-> <<>>, warnings |-> <<>>]
  /\ pc = "idle"
  /\ book_meta = None
  /\ chapter_index = None
  /\ char_index = None
  /\ ran = {}
  /\ result = "none"
  /\ runs = 0
  /\ budget = b
  /\ prev = NoOutcome

Init == InitWith(1)
InitTwice == InitWith(MaxRuns)

\* An uncaught exception leaves validate() and main(): the process ends.
Abort(R) ==
  /\ self' = R.self
  /\ pc' = "exited"
  /\ result' = "exception"

\* main() with the validator instance it constructs: enter validate() and
\* test the directory.
Enter(fresh) ==
  /\ pc \in {"idle", "exited"}
  /\ runs < budget
  /\ runs' = runs + 1
  /\ prev' = [errors |-> self.errors, warnings |-> self.warnings, result |-> result]
  /\ book_meta' = None
  /\ chapter_index' = None
  /\ char_index' = None
  /\ ran' = {}
  /\ IF ~pkg.dir
       THEN /\ self' = error(fresh, Msg("Directory does not exist", 0, 0, <<>>, FALSE))
            /\ result' = "failed"
            /\ pc' = "exited"
       ELSE /\ self' = fresh
            /\ result' = "none"
            /\ pc' = "book"
  /\ UNCHANGED <<pkg, strict, budget>>

\* (variant) the error and warning lists outlive the instance
MainSharedLists == Enter([self EXCEPT !.strict = strict])

Main == Enter(NewSelf(strict))

CheckBookJson ==
  /\ pc = "book"
  /\ LET R == check_book_json(self, pkg.files)
     IN /\ ran' = ran \cup {"book"}
        /\ IF R.raised
             THEN Abort(R) /\ UNCHANGED book_meta
             ELSE self' = R.self /\ book_meta' = R.ret /\ pc' = "index" /\ UNCHANGED result
  /\ UNCHANGED <<pkg, strict, chapter_index, char_index, runs, budget, prev>>

CheckChaptersIndex ==
  /\ pc = "index"
  /\ LET R == check_chapters_index(self, pkg.files)
     IN /\ ran' = ran \cup {"index"}
        /\ IF R.raised
             THEN Abort(R) /\ UNCHANGED chapter_index
             ELSE self' = R.self /\ chapter_index' = R.ret /\ pc' = "files" /\ UNCHANGED result
  /\ UNCHANGED <<pkg, strict, book_meta, char_index, runs, budget, prev>>

\* A check that returns nothing: run it when its guard holds, else skip it.
Step(here, name, guard, R, next) ==
  /\ pc = here
  /\ IF guard
       THEN /\ ran' = ran \cup {name}
            /\ IF R.raised
                 THEN Abort(R)
                 ELSE self' = R.self /\ pc' = next /\ UNCHANGED result
       ELSE pc' = next /\ UNCHANGED <<self, ran, result>>

CheckChapterFiles ==
  /\ Step("files", "files", Truthy(chapter_index),
          check_chapter_files(self, pkg.files, chapter_index), "chapcount")
  /\ UNCHANGED <<pkg, strict, book_meta, chapter_index, char_index, runs, budget, prev>>

CheckChapterCount ==
  /\ Step("chapcount", "chapcount", Truthy(book_meta) /\ Truthy(chapter_index),
          check_chapter_count(self, book_meta, chapter_index), "chars")
  /\ UNCHANGED <<pkg, strict, book_meta, chapter_index, char_index, runs, budget, prev>>

CheckCharactersIndex ==
  /\ pc = "chars"
  /\ LET R == check_characters_index(self, pkg.files)
     IN /\ ran' = ran \cup {"chars"}
        /\ self' = R.self
        /\ char_index' = R.ret
        /\ pc' = "charcount"
  /\ UNCHANGED <<pkg, strict, book_meta, chapter_index, result, runs, budget, prev>>

CheckCharacterCount ==
  /\ Step("charcount", "charcount", Truthy(book_meta) /\ Truthy(char_index),
          check_character_count(self, book_meta, char_index), "coverage")
  /\ UNCHANGED <<pkg, strict, book_meta, chapter_index, char_index, runs, budget, prev>>

CheckNodeCharacterCoverage ==
  /\ Step("coverage", "coverage", Truthy(chapter_index) /\ Truthy(char_index),
          check_node_character_coverage(self, pkg.files, chapter_index, char_index), "empty")
  /\ UNCHANGED <<pkg, strict, book_meta, chapter_index, char_index, runs, budget, prev>>

CheckNoEmptySnapshots ==
  /\ Step("empty", "empty", Truthy(chapter_index),
          check_no_empty_snapshots(self, pkg.files, chapter_index), "summary")
  /\ UNCHANGED <<pkg, strict, book_meta, chapter_index, char_index, runs, budget, prev>>

\* The summary of validate() and the exit of main().
Summary ==
  /\ pc = "summary"
  /\ result' = IF self.errors # <<>> THEN "failed" ELSE "passed"
  /\ pc' = "exited"
  /\ UNCHANGED <<pkg, strict, self, book_meta, chapter_index, char_index, ran, runs, budget, prev>>

Next ==
  \/ Main
  \/ CheckBookJson
  \/ CheckChaptersIndex
  \/ CheckChapterFiles
  \/ CheckChapterCount
  \/ CheckCharactersIndex
  \/ CheckCharacterCount
  \/ CheckNodeCharacterCoverage
  \/ CheckNoEmptySnapshots
  \/ Summary

Spec == Init /\ [][Next]_vars
SpecTwice == InitTwice /\ [][Next]_vars

\* ---------------------------------------------------------------- vocabulary
Range(seq) == {seq[i] : i \in DOMAIN seq}
\* Occurrences of the message msg / of messages with the text t in seq
Occurrences(seq, msg) == Cardinality({i \in DOMAIN seq : seq[i] = msg})
TextCount(seq, t) == Cardinality({i \in DOMAIN seq : seq[i].text = t})

Exited == pc = "exited" /\ runs >= 1
Returned == Exited /\ result \in {"passed", "failed"}

Exists(path) == pkg.dir /\ path \in DOMAIN pkg.files
Decodes(path) == Exists(path) /\ pkg.files[path].kind # "invalid"

BookPath == <<"book.json">>
IndexPath == <<"chapters", "index.json">>
RegistryPath == <<"characters", "index.json">>

\* book.json yields metadata: an object with the four required fields
MetadataAvailable ==
  /\ Decodes(BookPath)
  /\ pkg.files[BookPath].kind = "object"
  /\ \A i \in DOMAIN Required : Required[i] \in DOMAIN pkg.files[BookPath].val
Metadata == pkg.files[BookPath]

IndexIsArray == Decodes(IndexPath) /\ pkg.files[IndexPath].kind = "array"
IndexEntriesOf == pkg.files[IndexPath].val
IndexIsEmptyArray == IndexIsArray /\ IndexEntriesOf = <<>>
\* the index is a non-empty array of objects
IndexAvailable ==
  /\ IndexIsArray
  /\ IndexEntriesOf # <<>>
  /\ \A i \in DOMAIN IndexEntriesOf : IndexEntriesOf[i].kind = "object"

RegistryLoads == Decodes(RegistryPath) /\ pkg.files[RegistryPath].kind = "object"
RegistryKeys == DOMAIN pkg.files[RegistryPath].val

\* the snapshot file of entry i is an object with a nodes array of objects
SnapshotPath(i) == <<"chapters", IndexEntriesOf[i].val["snapshot"]>>
SnapshotWellFormed(i) ==
  /\ "snapshot" \in DOMAIN IndexEntriesOf[i].val
  /\ IndexEntriesOf[i].val["snapshot"] # ""
  /\ Decodes(SnapshotPath(i))
  /\ pkg.files[SnapshotPath(i)].kind = "object"
  /\ "nodes" \in DOMAIN pkg.files[SnapshotPath(i)].val
  /\ pkg.files[SnapshotPath(i)].val["nodes"].kind = "array"
  /\ \A j \in DOMAIN pkg.files[SnapshotPath(i)].val["nodes"].val :
       pkg.files[SnapshotPath(i)].val["nodes"].val[j].kind = "object"
NodesOf(i) == pkg.files[SnapshotPath(i)].val["nodes"].val
\* positions of the nodes of snapshot i that carry an id that is no registry key
Uncovered(i) ==
  {j \in DOMAIN NodesOf(i) :
     /\ "id" \in DOMAIN NodesOf(i)[j].val
     /\ NodesOf(i)[j].val["id"] \notin RegistryKeys}

\* The six cross-document invariants of the data model, for a package whose
\* documents all exist with the shapes the data model gives them; a count
\* that book.json omits is read as 0.
DocumentsWellFormed ==
  /\ MetadataAvailable
  /\ IndexAvailable
  /\ \A i \in DOMAIN IndexEntriesOf :
       /\ {"chapter", "snapshot", "delta"} \subseteq DOMAIN IndexEntriesOf[i].val
       /\ IndexEntriesOf[i].val["delta"] # ""
       /\ SnapshotWellFormed(i)
  /\ RegistryLoads
Invariant1 == Metadata.val["schemaVersion"] = "1.0"
Invariant2 ==
  \A i \in DOMAIN IndexEntriesOf :
    /\ Exists(SnapshotPath(i))
    /\ Exists(<<"chapters", IndexEntriesOf[i].val["delta"]>>)
Invariant3 == Get(Metadata, "chapterCount", 0) = Len(IndexEntriesOf)
Invariant4 == Get(Metadata, "characterCount", 0) = Cardinality(RegistryKeys)
Invariant5 == Uncovered(Len(IndexEntriesOf)) = {}
Invariant6 == \A i \in DOMAIN IndexEntriesOf : NodesOf(i) # <<>>
ValidPackage ==
  /\ DocumentsWellFormed
  /\ Invariant1 /\ Invariant2 /\ Invariant3 /\ Invariant4 /\ Invariant5 /\ Invariant6
CoverPresent ==
  "coverImage" \in DOMAIN Metadata.val => Exists(<<Metadata.val["coverImage"]>>)

\* ------------------------------------------------------------------- claims

\* C1: with strict mode on, every warning is also in the error list from the
\* moment it is raised, and a run that returns with a non-empty warning list
\* returns failed; with strict mode off, no warning is ever in the error
\* list, and a run that returns with no error finding returns passed.
C1_StrictDoubleRecords ==
  /\ strict =>
       /\ SelectSeq(self.errors, LAMBDA e : e \in Range(self.warnings)) = self.warnings
       /\ (Returned /\ self.warnings # <<>> => result = "failed")
  /\ ~strict =>
       /\ Range(self.errors) \cap Range(self.warnings) = {}
       /\ (Returned /\ self.warnings # <<>> /\ self.errors = <<>> => result = "passed")
C1_Witness ==
  /\ Returned /\ strict /\ result = "failed"
  /\ Len(self.warnings) >= 2 /\ self.errors = self.warnings

\* C2 (as stated): a valid package (six invariants, schemaVersion "1.0")
\* returns passed with an empty error list, strict or not.
C2_ValidPasses ==
  Returned /\ ValidPackage => result = "passed" /\ self.errors = <<>>
\* C2 (amended): a valid package whose coverImage, when set, names an
\* existing file returns passed with an empty error list, strict or not.
C2_ValidWithCoverPasses ==
  Returned /\ ValidPackage /\ CoverPresent => result = "passed" /\ self.errors = <<>>
C2_Witness ==
  /\ Returned /\ ValidPackage /\ CoverPresent /\ strict
  /\ "coverImage" \in DOMAIN Metadata.val
  /\ Len(IndexEntriesOf) = MaxChapters
  /\ ran = {"book", "index", "files", "chapcount", "chars", "charcount", "coverage", "empty"}
  /\ result = "passed"

IndexCheckTexts ==
  {"chapters/index.json is missing or invalid", "chapters/index.json is not an array",
   "chapters/index.json is empty", "chapters/index.json entry missing field"}

\* C3 (as stated): with an empty index array the run returns failed with
\* exactly one error, the emptiness error, and none of chapter files, chapter
\* count, characters index, character count, node coverage and empty
\* snapshots execute.
C3_EmptyIndexOnlyError ==
  Returned /\ IndexIsEmptyArray =>
    /\ result = "failed"
    /\ Len(self.errors) = 1
    /\ self.errors[1].text = "chapters/index.json is empty"
    /\ ran \cap {"files", "chapcount", "chars", "charcount", "coverage", "empty"} = {}
\* C3 (amended): with an empty index array, once the chapter-index check has
\* run the error list holds the emptiness error exactly once and no other
\* error of that check; chapter files, chapter count, node coverage and empty
\* snapshots never execute; a run that returns has executed the characters
\* index check and returns failed.
C3_EmptyIndexStops ==
  IndexIsEmptyArray =>
    /\ "index" \in ran =>
         /\ TextCount(self.errors, "chapters/index.json is empty") = 1
         /\ \A t \in IndexCheckTexts \ {"chapters/index.json is empty"} : TextCount(self.errors, t) = 0
         /\ Occurrences(self.errors, Msg("invalid JSON", 0, 0, IndexPath, FALSE)) = 0
         /\ chapter_index = None
    /\ ran \cap {"files", "chapcount", "coverage", "empty"} = {}
    /\ Returned => result = "failed" /\ "chars" \in ran
C3_Witness ==
  /\ Returned /\ IndexIsEmptyArray /\ result = "failed"
  /\ Len(self.errors) >= 2
  /\ "charcount" \in ran

\* C4 (as stated): when chapterCount in book.json differs from the length
\* of the index array, the run returns failed with exactly one
\* chapter-count-mismatch error, strict or not.
C4_CountMismatchAlways ==
  /\ Returned
  /\ Decodes(BookPath) /\ Metadata.kind = "object" /\ "chapterCount" \in DOMAIN Metadata.val
  /\ IndexIsArray
  /\ Metadata.val["chapterCount"] # Len(IndexEntriesOf)
  => result = "failed" /\ TextCount(self.errors, ChapterCountText) = 1
\* C4 (amended): the chapter-count check runs only when book.json yields
\* metadata and the index is a non-empty array of objects, and every run that
\* returns on such a package has run it; once it has run, the error list
\* holds exactly one chapter-count-mismatch error if chapterCount (0 when
\* absent) differs from the index length and none otherwise, and a run that
\* returns after a mismatch returns failed, strict or not; when it has not
\* run, no chapter-count-mismatch error is recorded.
C4_CountMismatchWhenAvailable ==
  /\ TextCount(self.errors, ChapterCountText) =
       IF /\ "chapcount" \in ran
          /\ Get(Metadata, "chapterCount", 0) # Len(IndexEntriesOf)
         THEN 1 ELSE 0
  /\ "chapcount" \in ran => MetadataAvailable /\ IndexAvailable
  /\ Returned /\ MetadataAvailable /\ IndexAvailable => "chapcount" \in ran
  /\ Returned /\ TextCount(self.errors, ChapterCountText) = 1 => result = "failed"
C4_Witness ==
  /\ Returned /\ ~strict /\ result = "failed"
  /\ "chapcount" \in ran
  /\ self.errors = <<Msg(ChapterCountText, 0, MaxChapters, <<>>, FALSE)>>

\* C5 (as stated): when characters/index.json does not exist the run emits
\* exactly one warning, passes with strict off, and with strict on fails with
\* that warning message in the error list.
C5_MissingRegistryOneWarning ==
  Returned /\ pkg.dir /\ ~Exists(RegistryPath) =>
    /\ Len(self.warnings) = 1
    /\ ~strict => result = "passed"
    /\ strict => result = "failed" /\ CharsMissingMsg \in Range(self.errors)
\* C5 (amended): when the directory exists and characters/index.json does
\* not, the characters-index step records the missing-registry warning exactly
\* once; with strict off it adds nothing to the error list, and the run that
\* returns passes exactly when no check recorded an error; with strict on the
\* error list holds that same message and a run that returns fails.
C5_MissingRegistryWarns ==
  pkg.dir /\ ~Exists(RegistryPath) =>
    /\ Occurrences(self.warnings, CharsMissingMsg) = (IF "chars" \in ran THEN 1 ELSE 0)
    /\ Occurrences(self.errors, CharsMissingMsg) = (IF strict /\ "chars" \in ran THEN 1 ELSE 0)
    /\ Returned => "chars" \in ran
    /\ Returned /\ strict => result = "failed"
    /\ Returned /\ ~strict => (result = "passed" <=> self.errors = <<>>)
C5_Witness ==
  /\ Returned /\ pkg.dir /\ ~Exists(RegistryPath) /\ strict
  /\ self.errors = <<CharsMissingMsg>>
  /\ self.warnings = <<CharsMissingMsg>>

RegistryInvalidMsg == Msg("invalid JSON", 0, 0, RegistryPath, FALSE)
RegistryUndecodable == Exists(RegistryPath) /\ pkg.files[RegistryPath].kind = "invalid"
RegistryWrongShape == Decodes(RegistryPath) /\ pkg.files[RegistryPath].kind \notin {"null", "object"}

\* C7 (as stated): when characters/index.json is absent, undecodable or not
\* an object, the characters-index step with strict off records one warning,
\* adds nothing to the error list and hands on no registry, and the
\* character-count and node-coverage checks do not run.
C7_RegistryNeverFatal ==
  /\ [][pc = "chars" /\ ~RegistryLoads /\ ~strict =>
          /\ Len(self'.warnings) = Len(self.warnings) + 1
          /\ self'.errors = self.errors
          /\ char_index' = None]_vars
  /\ [](pkg.dir /\ ~RegistryLoads => ran \cap {"charcount", "coverage"} = {})
\* C7 (amended): when characters/index.json is absent or decodes to
\* something other than an object, the characters-index step records one
\* warning and, with strict off, adds nothing to the error list; when the
\* file is present but undecodable the loader also appends an invalid-JSON
\* error, strict or not; in all three cases the step hands on no registry
\* and the character-count and node-coverage checks do not run.
C7_RegistryFatalOnlyWhenUndecodable ==
  /\ [][pc = "chars" /\ ~RegistryLoads =>
          LET w == IF RegistryWrongShape THEN CharsNotDictMsg ELSE CharsMissingMsg
          IN /\ self'.warnings = Append(self.warnings, w)
             /\ self'.errors = self.errors
                                 \o (IF RegistryUndecodable THEN <<RegistryInvalidMsg>> ELSE <<>>)
                                 \o (IF strict THEN <<w>> ELSE <<>>)
             /\ char_index' = None]_vars
  /\ [](pkg.dir /\ ~RegistryLoads => ran \cap {"charcount", "coverage"} = {})
C7_Witness ==
  /\ Returned /\ ~strict /\ RegistryUndecodable
  /\ self.errors = <<RegistryInvalidMsg>>
  /\ self.warnings = <<CharsMissingMsg>>
  /\ ran = {"book", "index", "files", "chapcount", "chars", "empty"}

LastEntry == Len(IndexEntriesOf)

\* C8: when the index is available, the registry loads as an object with
\* any number of keys and the last entry's snapshot is an object with a nodes
\* array, the run records exactly one node-coverage warning if some node id
\* of that snapshot is no registry key, counting every such id, and none
\* otherwise.
C8_CoverageWarningIffUncovered ==
  Returned /\ IndexAvailable /\ RegistryLoads /\ SnapshotWellFormed(LastEntry) =>
    /\ TextCount(self.warnings, CoverageText) = (IF Uncovered(LastEntry) # {} THEN 1 ELSE 0)
    /\ \A i \in DOMAIN self.warnings :
         self.warnings[i].text = CoverageText =>
           self.warnings[i].n = Cardinality(Uncovered(LastEntry))

\* C9: when book.json yields metadata and the registry loads as an object
\* with any number of keys, the run records a character-count warning
\* exactly when characterCount (0 when absent) differs from the number of
\* registry keys, and never a character-count error with strict off.
C9_CharacterCountWarningIffDiffers ==
  Returned /\ MetadataAvailable /\ RegistryLoads =>
    /\ TextCount(self.warnings, CharacterCountText) =
         (IF Get(Metadata, "characterCount", 0) # Cardinality(RegistryKeys) THEN 1 ELSE 0)
    /\ ~strict => TextCount(self.errors, CharacterCountText) = 0

\* C10: whatever the shapes of the JSON documents, no check raises an
\* exception that aborts the run.
C10_NoCheckAborts == result # "exception"

====
